---- MODULE Spec2Model ----
(***************************************************************************)
(* Break Time Keeper Pro: the Index page component (src/pages/Index.tsx).  *)
(* The component state (breakRecords, currentTime), the browser's local    *)
(* storage entry 'breakTimeTrackerData', the wall clock read by new Date() *)
(* and the notifications raised by the handlers are modelled as a state    *)
(* machine; each event handler is one action that includes the save effect *)
(* React runs after the state change it makes.                             *)
(*                                                                         *)
(* Strings that the code inspects character by character (names: trim,     *)
(* toLowerCase) are sequences of one-character strings.  Dates are their   *)
(* getTime() value in milliseconds (UTC, no time-zone offset).  An optional*)
(* value is <<>> when absent and <<v>> when present.  A JavaScript object  *)
(* is a record; a property it does not have is a field outside its DOMAIN, *)
(* and the object {} is the function with the empty domain, <<>>.          *)
(***************************************************************************)
EXTENDS Integers, Sequences, FiniteSets, TLC

VARIABLES
    breakRecords,   \* useState<BreakRecord[]>: the record collection
    currentTime,    \* useState(new Date()): the displayed clock
    clock,          \* the wall clock, what new Date() returns
    storage,        \* localStorage['breakTimeTrackerData']: <<>> or <<value>>
    toasts,         \* notifications raised by the latest handler run
    pc,             \* position in the mount sequence, "ready" once mounted
    pending,        \* state update queued by the load effect: <<>> or <<records>>
    unloaded,       \* history: the collection discarded by the latest page reload
    step,           \* position in the scripted scenario (0 outside of it)
    call            \* a call of a display helper: the helper, its arguments and,
                    \* once it has returned, its result

vars == <<breakRecords, currentTime, clock, storage, toasts, pc, pending, unloaded, step, call>>

-----------------------------------------------------------------------------
(* Bounds of the model *)

\* Largest number of records the model lets the collection hold.
MaxRecords == 3

\* Wall-clock time at which the page is first opened: 10:00:00.000 on day 0.
StartOfDay == 36000000

\* Offsets (ms after StartOfDay) the wall clock is read at, around the two
\* thresholds: 0, 30 min, 31 min, 32 min 30 s, 33 min.
Offsets == {0, 1800000, 1860000, 1950000, 1980000}

Instants == {StartOfDay + o : o \in Offsets}

\* Texts typed into the reason cell.
Reasons == {"", "doctor"}

\* Texts typed into the name field.
Alice == <<"A", "l", "i", "c", "e">>
alice == <<"a", "l", "i", "c", "e">>
NameInputs == {<<>>, <<" ">>, Alice, alice, <<" ">> \o Alice \o <<" ">>}

-----------------------------------------------------------------------------
(* Helper functions of the component *)

IsSpace(c) == c = " "

RECURSIVE TrimStart(_)
TrimStart(s) == IF s = <<>> THEN s
                ELSE IF IsSpace(Head(s)) THEN TrimStart(Tail(s)) ELSE s

RECURSIVE TrimEnd(_)
TrimEnd(s) == IF s = <<>> THEN s
              ELSE IF IsSpace(s[Len(s)]) THEN TrimEnd(SubSeq(s, 1, Len(s) - 1)) ELSE s

\* String.prototype.trim
trim(s) == TrimEnd(TrimStart(s))

LowerChar(c) == CASE c = "A" -> "a"
                  [] OTHER   -> c

\* String.prototype.toLowerCase
toLowerCase(s) == [i \in 1..Len(s) |-> LowerChar(s[i])]

Pad2(n) == IF n < 10 THEN "0" \o ToString(n) ELSE ToString(n)

\* formatTime: toLocaleTimeString('en-US', 2-digit hour, minute, second)
formatTime(date) ==
    LET h24 == (date \div 3600000) % 24
        h12 == IF h24 % 12 = 0 THEN 12 ELSE h24 % 12
        mm  == (date \div 60000) % 60
        ss  == (date \div 1000) % 60
    IN  Pad2(h12) \o ":" \o Pad2(mm) \o ":" \o Pad2(ss)
          \o (IF h24 < 12 THEN " AM" ELSE " PM")

\* formatDuration taking the minutes from the whole duration, not from what
\* is left of it after the hours.
formatDurationTotalMinutes(ms) ==
    LET hours   == ms \div 3600000
        minutes == ms \div 60000
        seconds == (ms % 60000) \div 1000
    IN  IF hours > 0
        THEN ToString(hours) \o "h " \o ToString(minutes) \o "m " \o ToString(seconds) \o "s"
        ELSE ToString(minutes) \o "m " \o ToString(seconds) \o "s"

formatDuration(ms) ==
    LET hours   == ms \div 3600000
        minutes == (ms % 3600000) \div 60000
        seconds == (ms % 60000) \div 1000
    IN  IF hours > 0
        THEN ToString(hours) \o "h " \o ToString(minutes) \o "m " \o ToString(seconds) \o "s"
        ELSE ToString(minutes) \o "m " \o ToString(seconds) \o "s"

\* getDurationColor with the thresholds included in the bands above them.
getDurationColorInclusive(durationMs, status) ==
    LET minutes == durationMs \div 60000 IN
    IF status = "active"
    THEN IF minutes >= 32 THEN "bg-red-100 text-red-800 border-red-200"
         ELSE IF minutes >= 30 THEN "bg-orange-100 text-orange-800 border-orange-200"
         ELSE "bg-blue-100 text-blue-800 border-blue-200"
    ELSE IF minutes >= 32 THEN "bg-red-500 text-white"
         ELSE IF minutes >= 30 THEN "bg-orange-500 text-white"
         ELSE "bg-green-100 text-green-800"

getDurationColor(durationMs, status) ==
    LET minutes == durationMs \div 60000 IN
    IF status = "active"
    THEN IF minutes > 32 THEN "bg-red-100 text-red-800 border-red-200"
         ELSE IF minutes > 30 THEN "bg-orange-100 text-orange-800 border-orange-200"
         ELSE "bg-blue-100 text-blue-800 border-blue-200"
    ELSE IF minutes > 32 THEN "bg-red-500 text-white"
         ELSE IF minutes > 30 THEN "bg-orange-500 text-white"
         ELSE "bg-green-100 text-green-800"

\* A notification of the toast library.
Toast(level, title, description) ==
    [level |-> level, title |-> title, description |-> description]

-----------------------------------------------------------------------------
(* Persistence: JSON.stringify / JSON.parse of the collection *)

\* Date.prototype.toISOString, the form JSON.stringify gives a Date: the
\* calendar day (as a day number) and the time of day split into fields.
toISOString(date) ==
    [day    |-> date \div 86400000,
     hour   |-> (date % 86400000) \div 3600000,
     minute |-> (date % 3600000) \div 60000,
     second |-> (date % 60000) \div 1000,
     milli  |-> date % 1000]

\* new Date(isoString)
ParseDate(iso) ==
    (((iso.day * 24 + iso.hour) * 60 + iso.minute) * 60 + iso.second) * 1000 + iso.milli

\* The time value of an Invalid Date (NaN), what new Date(undefined) gives.
InvalidDate == -1

\* JSON null.
JsonNull == [null |-> TRUE]

\* Date.prototype.toJSON: the ISO string, or null for an Invalid Date.
DateToJson(date) == IF date = InvalidDate THEN JsonNull ELSE toISOString(date)

\* new Date(value) for a value read from JSON: null is the epoch.
NewDate(json) == IF json = JsonNull THEN 0 ELSE ParseDate(json)

\* JSON.stringify of one record: dates become ISO strings, an undefined
\* endTime is left out.
StringifyRecord(r) ==
    [f \in DOMAIN r |->
        IF f = "startTime" THEN DateToJson(r[f])
        ELSE IF f = "endTime" THEN (IF r[f] = <<>> THEN <<>> ELSE <<DateToJson(r[f][1])>>)
        ELSE r[f]]

\* JSON.stringify(breakRecords)
Stringify(records) == [i \in 1..Len(records) |-> StringifyRecord(records[i])]

\* The map callback of the load effect: the object's own properties, with
\* startTime and endTime rebuilt; a missing startTime gives an Invalid Date.
ReconstructRecord(p) ==
    [f \in DOMAIN p \cup {"startTime", "endTime"} |->
        IF f = "startTime"
        THEN (IF "startTime" \in DOMAIN p THEN NewDate(p.startTime) ELSE InvalidDate)
        ELSE IF f = "endTime"
        THEN (IF "endTime" \in DOMAIN p /\ p.endTime # <<>>
              THEN <<NewDate(p.endTime[1])>> ELSE <<>>)
        ELSE p[f]]

\* Stored texts that are not an array of records.  A text JSON.parse rejects
\* and a text that parses to something other than an array stand as marked
\* one-element values; the other two are the arrays [null] and [{}].
InvalidJsonText == <<[syntaxError |-> TRUE]>>
NotAnArrayText  == <<[notAnArray |-> TRUE]>>
NullElementText == <<JsonNull>>
EmptyObjectText == << <<>> >>

CorruptTexts == {InvalidJsonText, NotAnArrayText, NullElementText, EmptyObjectText}

\* The try block of the load effect throws: JSON.parse rejects the text,
\* the parsed value has no map method, or the map callback reads a property
\* of null.
LoadThrows(text) ==
    \/ text = InvalidJsonText
    \/ text = NotAnArrayText
    \/ \E i \in 1..Len(text) : text[i] = JsonNull

Reconstruct(parsed) == [i \in 1..Len(parsed) |-> ReconstructRecord(parsed[i])]

\* The save effect: runs after every change of breakRecords and writes the
\* whole collection under the key.
SaveEffect(records) == <<Stringify(records)>>

\* SetBreakRecords without the save effect running.
SetBreakRecordsUnsaved(records) ==
    /\ breakRecords' = records
    /\ storage' = storage

\* setBreakRecords(records) followed by the re-render's save effect.
SetBreakRecords(records) ==
    /\ breakRecords' = records
    /\ storage' = SaveEffect(records)

\* No display helper is being called.
NoCall == [fn |-> "none", ms |-> 0, status |-> "", result |-> <<>>]

-----------------------------------------------------------------------------
(* Mount sequence *)

Init ==
    /\ breakRecords = <<>>
    /\ currentTime = StartOfDay
    /\ clock = StartOfDay
    /\ storage = <<>>
    /\ toasts = <<>>
    /\ pc = "load"
    /\ pending = <<>>
    /\ unloaded = <<>>
    /\ step = 0
    /\ call = NoCall

\* LoadEffect running after the first render's save effect has written the key.
LoadEffectAfterSave ==
    /\ pc = "load"
    /\ pending' = <<Reconstruct(SaveEffect(breakRecords)[1])>>
    /\ pc' = "save"
    /\ UNCHANGED <<breakRecords, currentTime, clock, storage, toasts, unloaded, step, call>>

\* The load effect: reads the key and queues the reconstructed collection;
\* when that throws it raises an error notification and queues nothing.
LoadEffect ==
    /\ pc = "load"
    /\ IF storage = <<>>
       THEN UNCHANGED <<pending, toasts>>
       ELSE IF LoadThrows(storage[1])
       THEN /\ pending' = <<>>
            /\ toasts' = <<Toast("error", <<"Failed to load saved data">>, "")>>
       ELSE /\ pending' = <<Reconstruct(storage[1])>>
            /\ UNCHANGED toasts
    /\ pc' = "save"
    /\ UNCHANGED <<breakRecords, currentTime, clock, storage, unloaded, step, call>>

\* The save effect of the first render: breakRecords is still the initial [].
MountSaveEffect ==
    /\ pc = "save"
    /\ storage' = SaveEffect(breakRecords)
    /\ pc' = "commit"
    /\ UNCHANGED <<breakRecords, currentTime, clock, toasts, pending, unloaded, step, call>>

\* The re-render caused by the load effect's setBreakRecords, with its save effect.
MountCommit ==
    /\ pc = "commit"
    /\ IF pending # <<>>
       THEN SetBreakRecords(pending[1])
       ELSE UNCHANGED <<breakRecords, storage>>
    /\ pending' = <<>>
    /\ pc' = "ready"
    /\ UNCHANGED <<currentTime, clock, toasts, unloaded, step, call>>

-----------------------------------------------------------------------------
(* Time passes *)

\* Tick marking as overtime the active records that have run more than 32
\* whole minutes.
TickExpiringBreaks ==
    /\ pc = "ready"
    /\ \E t \in Instants : t > clock /\ clock' = t
    /\ currentTime' = clock'
    /\ toasts' = <<>>
    /\ SetBreakRecords([i \in 1..Len(breakRecords) |->
            IF /\ breakRecords[i].status = "active"
               /\ (clock' - breakRecords[i].startTime) \div 60000 > 32
            THEN [breakRecords[i] EXCEPT !.status = "overtime"]
            ELSE breakRecords[i]])
    /\ UNCHANGED <<pc, pending, unloaded, step, call>>

\* The wall clock reaches a later instant.  The instants are whole seconds
\* apart, so the one-second interval callback has run at the new instant
\* (setCurrentTime(new Date())), and the notifications on screen, which
\* stay a few seconds, are gone.
Tick ==
    /\ pc = "ready"
    /\ \E t \in Instants : t > clock /\ clock' = t
    /\ currentTime' = clock'
    /\ toasts' = <<>>
    /\ UNCHANGED <<breakRecords, storage, pc, pending, unloaded, step, call>>

-----------------------------------------------------------------------------
(* Handlers *)

\* NameCount comparing the names as typed, letter case included.
NameCountExact(records, name) ==
    Cardinality({i \in 1..Len(records) : records[i].name = name})

NameCount(records, name) ==
    Cardinality({i \in 1..Len(records) :
                    toLowerCase(records[i].name) = toLowerCase(name)})

\* ValidationToasts without the check for an empty name.
ValidationToastsNoEmptyCheck(records, name) ==
    IF NameCount(records, name) >= 2
    THEN <<Toast("error",
                 <<name, " has already been used twice. Cannot add more entries.">>, "")>>
    ELSE <<>>

\* ValidationToasts letting a name through until it has more than two records.
ValidationToastsOffByOne(records, name) ==
    IF trim(name) = <<>>
    THEN <<Toast("error", <<"Please enter an associate name">>, "")>>
    ELSE IF NameCount(records, name) > 2
    THEN <<Toast("error",
                 <<name, " has already been used twice. Cannot add more entries.">>, "")>>
    ELSE <<>>

\* validateAssociateName: the notifications it raises; it returns true exactly
\* when it raises none.
ValidationToasts(records, name) ==
    IF trim(name) = <<>>
    THEN <<Toast("error", <<"Please enter an associate name">>, "")>>
    ELSE IF NameCount(records, name) >= 2
    THEN <<Toast("error",
                 <<name, " has already been used twice. Cannot add more entries.">>, "")>>
    ELSE <<>>

validateAssociateName(records, name) == ValidationToasts(records, name) = <<>>

\* The record startBreak builds.
NewRecord(name, now) ==
    [id        |-> <<name, "-", now>>,
     name      |-> name,
     start     |-> formatTime(now),
     end       |-> "",
     duration  |-> "",
     reason    |-> "",
     startTime |-> now,
     endTime   |-> <<>>,
     status    |-> "active"]

\* startBreak putting the new record in front of the others.
startBreakPrepending(name) ==
    LET now == clock IN
    /\ SetBreakRecords(<<NewRecord(name, now)>> \o breakRecords)
    /\ toasts' = <<Toast("success", <<"Break started for ", name>>,
                         "Started at " \o formatTime(now))>>

startBreak(name) ==
    LET now == clock IN
    /\ SetBreakRecords(Append(breakRecords, NewRecord(name, now)))
    /\ toasts' = <<Toast("success", <<"Break started for ", name>>,
                         "Started at " \o formatTime(now))>>

\* EndStatus comparing the duration itself, not its whole minutes.
EndStatusUnrounded(duration) ==
    IF duration > 32 * 60000 THEN "overtime" ELSE "completed"

\* The status endBreak gives a break of the given duration.
EndStatus(duration) ==
    LET minutes == duration \div 60000
    IN  IF minutes > 32 THEN "overtime" ELSE "completed"

\* EndToast warning from 30 whole minutes on.
EndToastInclusive(name, duration) ==
    LET minutes == duration \div 60000
        description == "Duration: " \o formatDuration(duration)
    IN  IF minutes > 32
        THEN Toast("error", <<name, "'s break exceeded 32 minutes!">>, description)
        ELSE IF minutes >= 30
        THEN Toast("warning", <<name, "'s break exceeded 30 minutes">>, description)
        ELSE Toast("success", <<"Break ended for ", name>>, description)

\* The notification endBreak raises for a break of the given duration.
EndToast(name, duration) ==
    LET minutes == duration \div 60000
        description == "Duration: " \o formatDuration(duration)
    IN  IF minutes > 32
        THEN Toast("error", <<name, "'s break exceeded 32 minutes!">>, description)
        ELSE IF minutes > 30
        THEN Toast("warning", <<name, "'s break exceeded 30 minutes">>, description)
        ELSE Toast("success", <<"Break ended for ", name>>, description)

\* EndMatches selecting every record of the table.
EndMatchesEveryRecord(record, name) == TRUE

\* The records endBreak's map callback rewrites.
EndMatches(record, name) == record.name = name /\ record.status = "active"

\* The map callback of endBreak.
EndRecord(record, name, now) ==
    IF EndMatches(record, name)
    THEN LET duration == now - record.startTime
         IN  [record EXCEPT !.end      = formatTime(now),
                            !.duration = formatDuration(duration),
                            !.endTime  = <<now>>,
                            !.status   = EndStatus(duration)]
    ELSE record

RECURSIVE EndToasts(_, _, _)
EndToasts(records, name, now) ==
    IF records = <<>> THEN <<>>
    ELSE (IF EndMatches(Head(records), name)
          THEN <<EndToast(name, now - Head(records).startTime)>>
          ELSE <<>>) \o EndToasts(Tail(records), name, now)

endBreak(name) ==
    LET now == clock IN
    /\ SetBreakRecords([i \in 1..Len(breakRecords) |-> EndRecord(breakRecords[i], name, now)])
    /\ toasts' = EndToasts(breakRecords, name, now)

\* breakRecords.find(...) of recordTime found a record.
HasActiveRecord(records, name) ==
    \E i \in 1..Len(records) : records[i].name = name /\ records[i].status = "active"

\* record.name.toLowerCase() in validateAssociateName throws a TypeError: a
\* record of the collection has no name.
NameReadThrows(records) == \E i \in 1..Len(records) : "name" \notin DOMAIN records[i]

\* recordTime with the given text in the name field.
recordTime(associateName) ==
    LET trimmedName == trim(associateName) IN
    IF trimmedName # <<>> /\ NameReadThrows(breakRecords)
    THEN UNCHANGED <<breakRecords, storage, toasts>>
    ELSE IF ~validateAssociateName(breakRecords, trimmedName)
    THEN /\ toasts' = ValidationToasts(breakRecords, trimmedName)
         /\ UNCHANGED <<breakRecords, storage>>
    ELSE IF HasActiveRecord(breakRecords, trimmedName)
    THEN endBreak(trimmedName)
    ELSE /\ Len(breakRecords) < MaxRecords
         /\ startBreak(trimmedName)

\* One click on the record button (or Enter) with the given text in the field.
RecordTimeWith(associateName) ==
    /\ pc = "ready"
    /\ UNCHANGED <<currentTime, clock, pc, pending, step, call>>
    /\ unloaded' = <<>>
    /\ recordTime(associateName)

RecordTime == \E associateName \in NameInputs : RecordTimeWith(associateName)

\* The value undefined, as an id.
Undefined == <<"undefined">>

\* record.id
IdOf(record) == IF "id" \in DOMAIN record THEN record.id ELSE Undefined

\* The ids the rows of the table pass to updateReason and deleteRecord.
Ids(records) == {IdOf(records[i]) : i \in 1..Len(records)}

\* { ...record, reason }
WithReason(record, reason) ==
    [f \in DOMAIN record \cup {"reason"} |-> IF f = "reason" THEN reason ELSE record[f]]

updateReason(id, reason) ==
    SetBreakRecords([i \in 1..Len(breakRecords) |->
                        IF IdOf(breakRecords[i]) = id
                        THEN WithReason(breakRecords[i], reason)
                        ELSE breakRecords[i]])

\* Typing the given text in the reason field of a row with the given id.
UpdateReasonWith(id, reason) ==
    /\ pc = "ready"
    /\ UNCHANGED <<currentTime, clock, toasts, pc, pending, step, call>>
    /\ unloaded' = <<>>
    /\ updateReason(id, reason)

UpdateReason ==
    \E id \in Ids(breakRecords), reason \in Reasons : UpdateReasonWith(id, reason)

\* Array.prototype.filter
RECURSIVE Filter(_, _)
Filter(records, id) ==
    IF records = <<>> THEN <<>>
    ELSE (IF IdOf(Head(records)) # id THEN <<Head(records)>> ELSE <<>>)
            \o Filter(Tail(records), id)

deleteRecord(id, confirmed) ==
    IF confirmed
    THEN /\ SetBreakRecords(Filter(breakRecords, id))
         /\ toasts' = <<Toast("success", <<"Record deleted successfully">>, "")>>
    ELSE UNCHANGED <<breakRecords, storage, toasts>>

\* One click on the delete button of a row with the given id, and the answer
\* to the confirmation dialog.
DeleteRecordWith(id, confirmed) ==
    /\ pc = "ready"
    /\ UNCHANGED <<currentTime, clock, pc, pending, step, call>>
    /\ unloaded' = <<>>
    /\ deleteRecord(id, confirmed)

DeleteRecord ==
    \E id \in Ids(breakRecords), confirmed \in BOOLEAN : DeleteRecordWith(id, confirmed)

\* clearTable: the removeItem it calls is followed by the save effect of the
\* collection change, which writes the key again.
clearTable(confirmed) ==
    IF confirmed
    THEN LET removed == <<>>   \* localStorage.removeItem
             saved   == SaveEffect(<<>>)
         IN  /\ breakRecords' = <<>>
             /\ storage' = saved
             /\ toasts' = <<Toast("success", <<"All records cleared successfully">>, "")>>
    ELSE UNCHANGED <<breakRecords, storage, toasts>>

ClearTableWith(confirmed) ==
    /\ pc = "ready"
    /\ UNCHANGED <<currentTime, clock, pc, pending, step, call>>
    /\ unloaded' = <<>>
    /\ clearTable(confirmed)

ClearTable == \E confirmed \in BOOLEAN : ClearTableWith(confirmed)

\* The page is closed and opened again: component state is lost, local
\* storage is kept.
Reload ==
    /\ pc = "ready"
    /\ unloaded' = <<breakRecords>>
    /\ breakRecords' = <<>>
    /\ currentTime' = clock
    /\ toasts' = <<>>
    /\ pending' = <<>>
    /\ pc' = "load"
    /\ UNCHANGED <<clock, storage, step, call>>

Next ==
    \/ LoadEffect
    \/ MountSaveEffect
    \/ MountCommit
    \/ Tick
    \/ RecordTime
    \/ UpdateReason
    \/ DeleteRecord
    \/ ClearTable
    \/ Reload

Spec == Init /\ [][Next]_vars

\* The page is first opened with a stored text that is not an array of records.
CorruptInit ==
    /\ breakRecords = <<>>
    /\ currentTime = StartOfDay
    /\ clock = StartOfDay
    /\ storage \in {<<text>> : text \in CorruptTexts}
    /\ toasts = <<>>
    /\ pc = "load"
    /\ pending = <<>>
    /\ unloaded = <<>>
    /\ step = 0
    /\ call = NoCall

CorruptSpec == CorruptInit /\ [][Next]_vars

-----------------------------------------------------------------------------
(* Two associates on break at the same time *)

Bob == <<"B", "o", "b">>

TeamNames == {Alice, Bob}

\* The collection holds at most MaxTeamRecords records.
MaxTeamRecords == 2

TeamRecordTime ==
    /\ \E associateName \in TeamNames : RecordTimeWith(associateName)
    /\ Len(breakRecords') <= MaxTeamRecords

TeamNext ==
    \/ LoadEffect
    \/ MountSaveEffect
    \/ MountCommit
    \/ Tick
    \/ TeamRecordTime
    \/ UpdateReason
    \/ DeleteRecord
    \/ ClearTable
    \/ Reload

TeamSpec == Init /\ [][TeamNext]_vars

-----------------------------------------------------------------------------
(* The display helpers, called on their own *)

\* The longest duration passed to formatDuration is under MaxHours + 1 hours.
MaxHours == 2

\* Durations at the ends of each second, minute and hour.
DurationInputs ==
    {h * 3600000 + m * 60000 + sec * 1000 + milli :
        h \in 0..MaxHours, m \in {0, 1, 59}, sec \in {0, 1, 59}, milli \in {0, 999}}

\* Durations at both ends of the minutes around the 30 and 32 minute marks,
\* and the statuses a record can have.
ColorInputs ==
    {0} \cup {m * 60000 + milli : m \in 29..34, milli \in {0, 59999}}

Statuses == {"active", "completed", "overtime"}

CallInit ==
    /\ breakRecords = <<>>
    /\ currentTime = StartOfDay
    /\ clock = StartOfDay
    /\ storage = <<>>
    /\ toasts = <<>>
    /\ pc = "load"
    /\ pending = <<>>
    /\ unloaded = <<>>
    /\ step = 0
    /\ call \in {[fn |-> "formatDuration", ms |-> ms, status |-> "", result |-> <<>>] :
                     ms \in DurationInputs}
                \cup {[fn |-> "getDurationColor", ms |-> ms, status |-> status,
                        result |-> <<>>] : ms \in ColorInputs, status \in Statuses}

\* The call of formatDuration returns.
FormatDuration ==
    /\ call.fn = "formatDuration"
    /\ call.result = <<>>
    /\ call' = [call EXCEPT !.result = <<formatDuration(call.ms)>>]
    /\ UNCHANGED <<breakRecords, currentTime, clock, storage, toasts, pc, pending,
                   unloaded, step>>

\* The call of getDurationColor returns.
GetDurationColor ==
    /\ call.fn = "getDurationColor"
    /\ call.result = <<>>
    /\ call' = [call EXCEPT !.result = <<getDurationColor(call.ms, call.status)>>]
    /\ UNCHANGED <<breakRecords, currentTime, clock, storage, toasts, pc, pending,
                   unloaded, step>>

CallNext ==
    \/ FormatDuration
    \/ GetDurationColor

CallSpec == CallInit /\ [][CallNext]_vars

TypeOK ==
    /\ pc \in {"load", "save", "commit", "ready"}
    /\ clock >= StartOfDay /\ currentTime <= clock
    /\ Len(breakRecords) <= MaxRecords
    /\ call.fn \in {"none", "formatDuration", "getDurationColor"}

-----------------------------------------------------------------------------
(* The scenario of the specification: Alice's two breaks *)

\* Wall-clock times of the scenario: 10:00:00, 10:29:00, 10:30:00, 11:05:00.
AliceTimes == <<StartOfDay, StartOfDay + 1740000, StartOfDay + 1800000, StartOfDay + 3900000>>

\* Steps 1, 3, 5, 7 and 8 are submissions of "Alice"; before steps 3, 5 and 7
\* the clock moves to the next time of the scenario.
AliceSubmit ==
    /\ step \in {0, 2, 4, 6, 7}
    /\ pc = "ready"
    /\ recordTime(Alice)
    /\ step' = step + 1
    /\ UNCHANGED call
    /\ unloaded' = <<>>
    /\ UNCHANGED <<currentTime, clock, pc, pending>>

AliceWait ==
    /\ step \in {1, 3, 5}
    /\ pc = "ready"
    /\ clock' = AliceTimes[(step + 3) \div 2]
    /\ currentTime' = clock'
    /\ toasts' = <<>>
    /\ step' = step + 1
    /\ UNCHANGED call
    /\ UNCHANGED <<breakRecords, storage, pc, pending, unloaded>>

AliceNext ==
    \/ LoadEffect
    \/ MountSaveEffect
    \/ MountCommit
    \/ AliceSubmit
    \/ AliceWait
    \/ UpdateReason
    \/ Reload

AliceSpec == Init /\ [][AliceNext]_vars

-----------------------------------------------------------------------------
(* Properties *)

\* Two names are the same when letter case is ignored.
SameAssociate(a, b) ==
    /\ Len(a) = Len(b)
    /\ \A k \in 1..Len(a) : LowerChar(a[k]) = LowerChar(b[k])

\* Number of records of the collection whose name is the given one, letter
\* case ignored.
MatchingCount(records, name) ==
    Cardinality({i \in 1..Len(records) : SameAssociate(records[i].name, name)})

ActiveIndexes(records, name) ==
    {i \in 1..Len(records) : records[i].name = name /\ records[i].status = "active"}

\* The step ended the active record(s) of the name and touched nothing else.
EndedBreak(name) ==
    /\ ActiveIndexes(breakRecords, name) # {}
    /\ Len(breakRecords') = Len(breakRecords)
    /\ \A i \in ActiveIndexes(breakRecords, name) :
          /\ breakRecords'[i].endTime = <<clock>>
          /\ breakRecords'[i].status # "active"
    /\ \A i \in 1..Len(breakRecords) :
          i \notin ActiveIndexes(breakRecords, name) => breakRecords'[i] = breakRecords[i]

\* The step appended one active record of the name and touched nothing else.
StartedBreak(name) ==
    /\ Len(breakRecords') = Len(breakRecords) + 1
    /\ SubSeq(breakRecords', 1, Len(breakRecords)) = breakRecords
    /\ breakRecords'[Len(breakRecords')].name = name
    /\ breakRecords'[Len(breakRecords')].status = "active"
    /\ breakRecords'[Len(breakRecords')].endTime = <<>>

\* C1: recordTime with a name that is not empty after trimming either ends
\* the active record of that name, when there is one, or else appends a new
\* active record; never both and never neither.
C1_RecordTimeEndsOrStarts ==
    [][\A n \in NameInputs :
          (RecordTimeWith(n) /\ trim(n) # <<>>) =>
              IF ActiveIndexes(breakRecords, trim(n)) # {}
              THEN EndedBreak(trim(n)) /\ ~StartedBreak(trim(n))
              ELSE StartedBreak(trim(n)) /\ ~EndedBreak(trim(n))]_vars

\* C2: when two records of the collection already carry a name, letter case
\* ignored, a further submission of that name in any letter case raises one
\* error notification and leaves the collection and its persisted form as
\* they were.
C2_ThirdStartRejected ==
    [][\A n \in NameInputs :
          (trim(n) # <<>> /\ MatchingCount(breakRecords, trim(n)) >= 2 /\ RecordTimeWith(n)) =>
              /\ breakRecords' = breakRecords
              /\ storage' = storage
              /\ Len(toasts') = 1
              /\ toasts'[1].level = "error"]_vars

\* C2 witness: the rejection of "alice" is on screen while the two records
\* that use up the name are both spelled "Alice".
C2_Witness ==
    /\ toasts = <<Toast("error",
                       <<alice, " has already been used twice. Cannot add more entries.">>, "")>>
    /\ MatchingCount(breakRecords, alice) = 2
    /\ \A i \in 1..Len(breakRecords) : breakRecords[i].name # alice

\* C4: no two records that are active at the same time belong to the same
\* associate, letter case ignored.
C4_OneActivePerAssociate ==
    \A i, j \in 1..Len(breakRecords) :
        (i # j /\ breakRecords[i].status = "active" /\ breakRecords[j].status = "active")
            => ~SameAssociate(breakRecords[i].name, breakRecords[j].name)

\* C5: no name, letter case ignored, has more than two records.
C5_AtMostTwoRecordsPerName ==
    \A i \in 1..Len(breakRecords) :
        MatchingCount(breakRecords, breakRecords[i].name) <= 2

\* C5 witness: a name has its two records, in two spellings, and a third
\* submission of it has just been turned down.
C5_Witness ==
    /\ \E i, j \in 1..Len(breakRecords) :
          /\ i # j
          /\ breakRecords[i].name = Alice
          /\ breakRecords[j].name = alice
    /\ Len(toasts) = 1
    /\ toasts[1].level = "error"

\* C3: the scenario runs as written: one active record after the first
\* submission at 10:00:00; completed with duration 29m 0s after the one at
\* 10:29:00; a second, active record after the one at 10:30:00; that record
\* overtime with duration 35m 0s and an error notification after the one at
\* 11:05:00; the further submission rejected.  (Stated of the mounted page.)
C3_AliceScenario ==
    pc = "ready" =>
        /\ step \in 1..2 =>
              /\ Len(breakRecords) = 1
              /\ breakRecords[1].status = "active"
              /\ breakRecords[1].start = "10:00:00 AM"
        /\ step \in 3..4 =>
              /\ Len(breakRecords) = 1
              /\ breakRecords[1].status = "completed"
              /\ breakRecords[1].duration = "29m 0s"
        /\ step \in 5..6 =>
              /\ Len(breakRecords) = 2
              /\ breakRecords[2].status = "active"
        /\ step \in 7..8 =>
              /\ Len(breakRecords) = 2
              /\ breakRecords[1].status = "completed"
              /\ breakRecords[2].status = "overtime"
              /\ breakRecords[2].duration = "35m 0s"
        /\ (step = 7 /\ toasts # <<>>) =>
              /\ toasts[1].level = "error"
              /\ toasts[1].description = "Duration: 35m 0s"
        /\ (step = 8 /\ toasts # <<>>) =>
              /\ toasts[1].level = "error"
              /\ toasts[1].description = ""

\* Elapsed time of an ended record.
Elapsed(record) == record.endTime[1] - record.startTime

\* C6: an ended record is overtime exactly when its duration is more than
\* 32 minutes, and completed exactly when it is at most 32 minutes.
C6_OvertimeIffOver32Minutes ==
    \A i \in 1..Len(breakRecords) :
        breakRecords[i].endTime # <<>> =>
            /\ breakRecords[i].status = "overtime" <=> Elapsed(breakRecords[i]) > 1920000
            /\ breakRecords[i].status = "completed" <=> Elapsed(breakRecords[i]) <= 1920000

\* C6 as amended: an ended record is overtime exactly when its duration has
\* more than 32 whole minutes, that is from 33 minutes on, and completed
\* exactly when it is under 33 minutes.
C6_OvertimeIffOver32WholeMinutes ==
    \A i \in 1..Len(breakRecords) :
        breakRecords[i].endTime # <<>> =>
            /\ breakRecords[i].status = "overtime" <=> Elapsed(breakRecords[i]) >= 1980000
            /\ breakRecords[i].status = "completed" <=> Elapsed(breakRecords[i]) < 1980000

\* C6 witness: a break of 32 min 30 s has been ended and is completed.
C6_Witness ==
    \E i \in 1..Len(breakRecords) :
        /\ breakRecords[i].endTime # <<>>
        /\ Elapsed(breakRecords[i]) = 1950000
        /\ breakRecords[i].status = "completed"
        /\ breakRecords[i].duration = "32m 30s"

\* Severity of the notification for m whole minutes of break.
Severity(m) == IF m > 32 THEN "error" ELSE IF m > 30 THEN "warning" ELSE "success"

\* C7: when a submission ends a record after m whole minutes, the record is
\* overtime if m > 32 and completed otherwise, and the one notification
\* raised is an error if m > 32, a warning if 30 < m <= 32 and a success if
\* m <= 30, and carries the formatted duration.
C7_EndClassification ==
    [][\A n \in NameInputs :
          RecordTimeWith(n) =>
              \A i \in ActiveIndexes(breakRecords, trim(n)) :
                  (Len(breakRecords') = Len(breakRecords) /\ breakRecords'[i].endTime # <<>>) =>
                      LET ms == clock - breakRecords[i].startTime
                          m  == ms \div 60000
                      IN  /\ breakRecords'[i].status = IF m > 32 THEN "overtime" ELSE "completed"
                          /\ Len(toasts') = 1
                          /\ toasts'[1].level = Severity(m)
                          /\ toasts'[1].description = "Duration: " \o formatDuration(ms)]_vars

\* C7 witness: a break of exactly 30 minutes has just been ended: completed,
\* with a success notification.
C7_Witness ==
    /\ Len(toasts) = 1
    /\ toasts[1].level = "success"
    /\ toasts[1].description = "Duration: 30m 0s"
    /\ \E i \in 1..Len(breakRecords) :
          /\ breakRecords[i].endTime = <<clock>>
          /\ Elapsed(breakRecords[i]) = 1800000
          /\ breakRecords[i].status = "completed"

\* C8: a confirmed clearAll leaves the collection empty and the persisted
\* key absent.
C8_ClearAllRemovesKey ==
    [][ClearTableWith(TRUE) => (breakRecords' = <<>> /\ storage' = <<>>)]_vars

\* C9: whenever the component is at rest the key holds the serialization of
\* the whole current collection.
C9_PersistedIsCurrent ==
    pc = "ready" => storage = <<Stringify(breakRecords)>>

\* C9 witness: at rest with two records, one of them ended at minute 33 and
\* given a reason, all of it in the persisted value.
C9_Witness ==
    /\ pc = "ready"
    /\ Len(breakRecords) = 2
    /\ storage # <<>>
    /\ Len(storage[1]) = 2
    /\ \E i \in 1..2 :
          /\ storage[1][i].reason = "doctor"
          /\ storage[1][i].endTime # <<>>
          /\ storage[1][i].endTime[1].minute = 33

\* C10: serializing a collection and reconstructing it gives the collection
\* back, and after a reload and the mount sequence the collection is the one
\* the page had before, persisted again.
C10_RoundTrip ==
    /\ Reconstruct(Stringify(breakRecords)) = breakRecords
    /\ (pc = "ready" /\ unloaded # <<>>) =>
          /\ breakRecords = unloaded[1]
          /\ storage = <<Stringify(unloaded[1])>>

\* C10 witness: the page has been reloaded with an ended and an active record
\* in the collection and has them again.
C10_Witness ==
    /\ pc = "ready"
    /\ unloaded # <<>>
    /\ Len(breakRecords) = 2
    /\ \E i, j \in 1..2 :
          /\ breakRecords[i].endTime # <<>>
          /\ breakRecords[i].endTime[1] > breakRecords[i].startTime
          /\ breakRecords[j].endTime = <<>>
          /\ breakRecords[j].status = "active"

\* The properties of a break record.
RecordFields ==
    {"id", "name", "start", "end", "duration", "reason", "startTime", "endTime", "status"}

\* The value is a list of break records.
IsRecordList(value) == \A i \in 1..Len(value) : DOMAIN value[i] = RecordFields

\* C11: when the page is opened and the stored text is not a list of
\* records, the load step raises the error notification and queues no
\* collection, so the collection stays empty; and from a collection that
\* holds no record, submitting a name starts that name's break as the only
\* record.
C11_CorruptDataLoadsEmpty ==
    [][/\ (pc = "load" /\ pc' = "save" /\ storage # <<>> /\ ~IsRecordList(storage[1])) =>
             /\ toasts' = <<Toast("error", <<"Failed to load saved data">>, "")>>
             /\ pending' = <<>>
             /\ breakRecords' = <<>>
       /\ \A n \in NameInputs :
             (/\ trim(n) # <<>>
              /\ \A i \in 1..Len(breakRecords) : DOMAIN breakRecords[i] # RecordFields
              /\ RecordTimeWith(n)) =>
                 breakRecords' = <<NewRecord(trim(n), clock)>>]_vars

\* C12: a submission whose name is empty once surrounding whitespace is
\* removed leaves the collection and the persisted copy as they were and
\* raises the error notification asking for a name.
C12_BlankNameRejected ==
    [][\A n \in NameInputs :
          (trim(n) = <<>> /\ RecordTimeWith(n)) =>
              /\ breakRecords' = breakRecords
              /\ storage' = storage
              /\ toasts' = <<Toast("error", <<"Please enter an associate name">>, "")>>]_vars

\* C12 witness: a blank submission has just been rejected while a break is
\* open, and the break is still open.
C12_Witness ==
    /\ pc = "ready"
    /\ toasts = <<Toast("error", <<"Please enter an associate name">>, "")>>
    /\ Len(breakRecords) = 1
    /\ breakRecords[1].status = "active"
    /\ breakRecords[1].endTime = <<>>

\* C13: the text formatDuration returns for ms milliseconds is built from
\* the one split of the whole seconds of ms into hours, minutes under 60 and
\* seconds under 60: "{h}h {m}m {s}s" when there is at least one hour and
\* "{m}m {s}s" otherwise; 0 gives "0m 0s" and 3661000 gives "1h 1m 1s".
C13_FormatDuration ==
    (call.fn = "formatDuration" /\ call.result # <<>>) =>
        /\ \E h \in 0..(MaxHours + 1), m \in 0..59, sec \in 0..59 :
              /\ h * 3600 + m * 60 + sec = call.ms \div 1000
              /\ call.result[1] =
                    IF h >= 1
                    THEN ToString(h) \o "h " \o ToString(m) \o "m " \o ToString(sec) \o "s"
                    ELSE ToString(m) \o "m " \o ToString(sec) \o "s"
        /\ call.ms = 0 => call.result[1] = "0m 0s"
        /\ call.ms = 3661000 => call.result[1] = "1h 1m 1s"

\* C13 witness: formatDuration has returned for a duration of over an hour
\* that is not a whole number of seconds.
C13_Witness ==
    /\ call.fn = "formatDuration"
    /\ call.ms = 3661999
    /\ call.result = <<"1h 1m 1s">>

\* C14: a submission that makes the collection grow adds exactly one record,
\* at the end: it carries the trimmed name, the current instant as
\* startTime, no endTime, an empty reason and status active; the records
\* that were there keep their values and their order.
C14_StartAppendsOneRecord ==
    [][\A n \in NameInputs :
          (RecordTimeWith(n) /\ Len(breakRecords') # Len(breakRecords)) =>
              /\ Len(breakRecords') = Len(breakRecords) + 1
              /\ \A i \in 1..Len(breakRecords) : breakRecords'[i] = breakRecords[i]
              /\ LET new == breakRecords'[Len(breakRecords')] IN
                    /\ new.name = trim(n)
                    /\ new.startTime = clock
                    /\ new.endTime = <<>>
                    /\ new.end = ""
                    /\ new.duration = ""
                    /\ new.reason = ""
                    /\ new.status = "active"]_vars

\* C14 witness: a break has just been started while the collection held an
\* ended record with a reason, which is still first and as it was.
C14_Witness ==
    /\ pc = "ready"
    /\ Len(breakRecords) = 2
    /\ breakRecords[1].endTime # <<>>
    /\ breakRecords[1].reason = "doctor"
    /\ breakRecords[2].status = "active"
    /\ breakRecords[2].startTime = clock
    /\ breakRecords[2].reason = ""
    /\ toasts # <<>>
    /\ toasts[1].level = "success"
    /\ toasts[1].description = "Started at " \o formatTime(clock)

\* C15: no two records of the collection have the same id, whatever the
\* instants at which they were started.
C15_UniqueIds ==
    \A i, j \in 1..Len(breakRecords) :
        i # j => breakRecords[i].id # breakRecords[j].id

\* C16: a confirmed delete of a row removes exactly one record, one whose id
\* is the row's, and leaves the others as they were and in their order; a
\* declined delete leaves the collection and the persisted copy unchanged.
C16_DeleteRemovesOneRecord ==
    [][\A id \in Ids(breakRecords) :
          /\ DeleteRecordWith(id, TRUE) =>
                \E k \in 1..Len(breakRecords) :
                    /\ breakRecords[k].id = id
                    /\ breakRecords' = SubSeq(breakRecords, 1, k - 1)
                                           \o SubSeq(breakRecords, k + 1, Len(breakRecords))
          /\ DeleteRecordWith(id, FALSE) =>
                (breakRecords' = breakRecords /\ storage' = storage)]_vars

\* C17: typing a reason in a row sets the reason of one record, one whose id
\* is the row's, whatever the text and the record's status, and changes
\* nothing else: not its other fields, not another record, not the size or
\* the order of the collection.
C17_UpdateReasonChangesOneRecord ==
    [][\A id \in Ids(breakRecords), reason \in Reasons :
          UpdateReasonWith(id, reason) =>
              \E k \in 1..Len(breakRecords) :
                  /\ breakRecords[k].id = id
                  /\ breakRecords' = [breakRecords EXCEPT ![k].reason = reason]]_vars

\* C18: a step in which time passes shows the new time and leaves the
\* collection and the persisted copy as they were, so a record that is
\* active stays active and without endTime however long it has run.
C18_TickOnlyMovesTime ==
    [][clock' # clock =>
          /\ currentTime' = clock'
          /\ breakRecords' = breakRecords
          /\ storage' = storage]_vars

\* C18 witness: the displayed time is 33 minutes after the start of a record
\* that is still active and has no endTime.
C18_Witness ==
    /\ pc = "ready"
    /\ currentTime = clock
    /\ \E i \in 1..Len(breakRecords) :
          /\ breakRecords[i].status = "active"
          /\ breakRecords[i].endTime = <<>>
          /\ clock - breakRecords[i].startTime = 1980000

\* The band and the palette a colour class stands for.
ColorBand(class) ==
    CASE class = "bg-red-100 text-red-800 border-red-200"       -> <<"critical", "active">>
      [] class = "bg-orange-100 text-orange-800 border-orange-200" -> <<"warning", "active">>
      [] class = "bg-blue-100 text-blue-800 border-blue-200"    -> <<"normal", "active">>
      [] class = "bg-red-500 text-white"                        -> <<"critical", "ended">>
      [] class = "bg-orange-500 text-white"                     -> <<"warning", "ended">>
      [] class = "bg-green-100 text-green-800"                  -> <<"normal", "ended">>
      [] OTHER                                                  -> <<"none", "none">>

\* C19: the colour getDurationColor returns is of the critical band when the
\* whole minutes of the duration are more than 32, of the warning band when
\* they are 31 or 32, and of the normal band when they are 30 or fewer; the
\* band does not depend on the status, which only selects the palette:
\* one for active records, one for ended ones.
C19_DurationColorBands ==
    (call.fn = "getDurationColor" /\ call.result # <<>>) =>
        LET m == call.ms \div 60000
            shown == ColorBand(call.result[1])
        IN  /\ shown[1] = "critical" <=> m > 32
            /\ shown[1] = "warning" <=> (30 < m /\ m <= 32)
            /\ shown[1] = "normal" <=> m <= 30
            /\ shown[2] = "active" <=> call.status = "active"
            /\ shown[2] = "ended" <=> call.status # "active"

\* C19 witness: a record that ended after 32 minutes 59.999 seconds gets the
\* warning colour of ended records.
C19_Witness ==
    /\ call.fn = "getDurationColor"
    /\ call.ms = 1979999
    /\ call.status = "completed"
    /\ call.result = <<"bg-orange-500 text-white">>

\* What a record keeps for as long as it is in the collection: its identity
\* and start, and, once it has an endTime, its end, duration and status.
Kept(before, after) ==
    /\ after.id = before.id
    /\ after.name = before.name
    /\ after.startTime = before.startTime
    /\ after.start = before.start
    /\ before.endTime # <<>> =>
          /\ after.endTime = before.endTime
          /\ after.end = before.end
          /\ after.duration = before.duration
          /\ after.status = before.status

\* C20: a step that removes no record keeps, position by position, the
\* startTime of every record and the endTime, duration and status of every
\* ended one; a step that removes records keeps them for the records that
\* stay; and the records a reload brings back have them as before the reload.
C20_EndedRecordsAreFrozen ==
    [][/\ Len(breakRecords') >= Len(breakRecords) =>
             \A i \in 1..Len(breakRecords) : Kept(breakRecords[i], breakRecords'[i])
       /\ Len(breakRecords') < Len(breakRecords) =>
             \A j \in 1..Len(breakRecords') :
                 \E i \in j..Len(breakRecords) : Kept(breakRecords[i], breakRecords'[j])
       /\ (pc' = "ready" /\ unloaded' # <<>>) =>
             /\ Len(breakRecords') = Len(unloaded'[1])
             /\ \A i \in 1..Len(breakRecords') : Kept(unloaded'[1][i], breakRecords'[i])]_vars

\* C20 witness: a record that was ended, then given a reason, is still as
\* it ended after the break of another associate was ended later.
C20_Witness ==
    /\ pc = "ready"
    /\ Len(breakRecords) = 2
    /\ breakRecords[1].name = Alice
    /\ breakRecords[1].endTime # <<>>
    /\ breakRecords[1].reason = "doctor"
    /\ breakRecords[2].name = Bob
    /\ breakRecords[2].endTime # <<>>
    /\ breakRecords[2].endTime[1] > breakRecords[1].endTime[1]
    /\ breakRecords[1].status = "completed"
    /\ breakRecords[2].status = "overtime"

\* record.status === 'active'
IsActive(record) == "status" \in DOMAIN record /\ record.status = "active"

\* The record has an endTime.
HasEndTime(record) == "endTime" \in DOMAIN record /\ record.endTime # <<>>

====
